---- MODULE Spec2Model ----
(***************************************************************************)
(* The movie-summary workflow step get_movie_plot (src/inngest/functions.py) *)
(* and its helpers (src/inngest/helpers.py): input validation, metadata    *)
(* lookup, summarization with fallback, email send with error              *)
(* classification, and the delivery-status poll loop with capped backoff.  *)
(*                                                                         *)
(* Python str values are sequences of one-character strings, so that       *)
(* str.lower(), the substring test `in` and f-string concatenation are     *)
(* computed and not assumed.  Python dicts are functions from key strings; *)
(* dict.get(k, default) is Get.  Time is counted in ticks of half a second *)
(* (Seconds(n) ticks in n seconds): every sleep the poller can request     *)
(* (2s, 3s, 4.5s, 5s) is a whole number of ticks.  The clock `now` models  *)
(* time.time(); it advances while a network call or a sleep is awaited.    *)
(***************************************************************************)
EXTENDS Integers, Sequences, FiniteSets, TLC

\* ------------------------------------------------------------ bounds

\* Longest round-trip of one network call, in ticks (0 = instantaneous).
MaxLatency == 2

\* Largest budget, in seconds, of the pollers started with a budget of their own.
MaxBudget == 3

\* ------------------------------------------------------------ Python values

\* Python's None, distinct from every str (whose elements are single characters).
NoneVal == <<"<None>">>

\* A key that the dict does not hold (used only to enumerate input dicts).
Absent == <<"<absent>">>

EmptyStr == << >>

\* The empty dict {}.
EmptyDict == [k \in {} |-> k]

\* A local variable that has not been assigned yet.
Unbound == [unbound |-> TRUE]

\* d.get(k, default)
Get(d, k, default) == IF k \in DOMAIN d THEN d[k] ELSE default

\* The dict holding the entries of f whose value is not Absent.
DictFrom(f) == [k \in {x \in DOMAIN f : f[x] # Absent} |-> f[k]]

\* Falsy with the test `x is None` in place of `not x`.
FalsyNoneOnly(x) == x = NoneVal

\* Python truthiness of an optional str: `not x` holds for None and "".
Falsy(x) == x = NoneVal \/ x = EmptyStr

UpperCase ==
    <<"A", "B", "C", "D", "E", "F", "G", "H", "I", "J", "K", "L", "M",
      "N", "O", "P", "Q", "R", "S", "T", "U", "V", "W", "X", "Y", "Z">>

LowerCase ==
    <<"a", "b", "c", "d", "e", "f", "g", "h", "i", "j", "k", "l", "m",
      "n", "o", "p", "q", "r", "s", "t", "u", "v", "w", "x", "y", "z">>

\* str.lower() of one character.
LowerChar(c) ==
    IF \E i \in 1..Len(UpperCase) : UpperCase[i] = c
    THEN LowerCase[CHOOSE i \in 1..Len(UpperCase) : UpperCase[i] = c]
    ELSE c

\* s.lower()
Lower(s) == [i \in 1..Len(s) |-> LowerChar(s[i])]

\* needle in hay
Contains(hay, needle) ==
    \E i \in 0..(Len(hay) - Len(needle)) :
        SubSeq(hay, i + 1, i + Len(needle)) = needle

\* ------------------------------------------------------------ literals of the source
RateLimitMarker ==
    <<"r", "a", "t", "e", " ", "l", "i", "m", "i", "t">>

ServerErrorMarker ==
    <<"s", "e", "r", "v", "e", "r", " ", "e", "r", "r", "o", "r">>

ErrorSendingPrefix ==
    <<"E", "r", "r", "o", "r", " ", "s", "e", "n", "d", "i", "n", "g", " ",
      "e", "m", "a", "i", "l", ":", " ">>

EmailBouncedPrefix ==
    <<"E", "m", "a", "i", "l", " ", "b", "o", "u", "n", "c", "e", "d", ":",
      " ">>

UnknownReason ==
    <<"U", "n", "k", "n", "o", "w", "n", " ", "r", "e", "a", "s", "o", "n">>

FailedToSummarizePrefix ==
    <<"F", "a", "i", "l", "e", "d", " ", "t", "o", " ", "s", "u", "m", "m",
      "a", "r", "i", "z", "e", " ", "p", "l", "o", "t", ":", " ">>

ErrorCheckingPrefix ==
    <<"E", "r", "r", "o", "r", " ", "c", "h", "e", "c", "k", "i", "n", "g",
      " ", "e", "m", "a", "i", "l", " ", "s", "t", "a", "t", "u", "s", ":",
      " ">>

NoTitleMessage ==
    <<"N", "o", " ", "m", "o", "v", "i", "e", " ", "t", "i", "t", "l", "e",
      " ", "p", "r", "o", "v", "i", "d", "e", "d", " ", "i", "n", " ", "t",
      "h", "e", " ", "e", "v", "e", "n", "t", " ", "d", "a", "t", "a">>

NoRecipientMessage ==
    <<"N", "o", " ", "r", "e", "c", "i", "p", "i", "e", "n", "t", " ", "e",
      "m", "a", "i", "l", " ", "p", "r", "o", "v", "i", "d", "e", "d", " ",
      "i", "n", " ", "t", "h", "e", " ", "e", "v", "e", "n", "t", " ", "d",
      "a", "t", "a">>

NoPlotPrefix ==
    <<"N", "o", " ", "p", "l", "o", "t", " ", "a", "v", "a", "i", "l", "a",
      "b", "l", "e", " ", "f", "o", "r", " ", "m", "o", "v", "i", "e", " ",
      "'">>

MoviePrefix ==
    <<"M", "o", "v", "i", "e", " ", "'">>

NotFoundInfix ==
    <<"'", " ", "n", "o", "t", " ", "f", "o", "u", "n", "d", " ", "i", "n",
      " ", "O", "M", "D", "B", ":", " ">>

Quote ==
    <<"'">>

UnknownError ==
    <<"U", "n", "k", "n", "o", "w", "n", " ", "e", "r", "r", "o", "r">>

FailedToFetchPrefix ==
    <<"F", "a", "i", "l", "e", "d", " ", "t", "o", " ", "f", "e", "t", "c",
      "h", " ", "m", "o", "v", "i", "e", " ", "d", "a", "t", "a", ":", " ">>

NotAvailable ==
    <<"N", "/", "A">>

ResponseTrue ==
    <<"T", "r", "u", "e">>

StatusDelivered ==
    <<"d", "e", "l", "i", "v", "e", "r", "e", "d">>

StatusBounced ==
    <<"b", "o", "u", "n", "c", "e", "d">>

StatusUnknown ==
    <<"u", "n", "k", "n", "o", "w", "n">>

\* ------------------------------------------------------------ inputs

\* OMDB's Response flag of a title it does not know.
ResponseFalse ==
    <<"F", "a", "l", "s", "e">>

\* Two non-terminal last_event values of the provider.
StatusPending ==
    <<"p", "e", "n", "d", "i", "n", "g">>

StatusSent ==
    <<"s", "e", "n", "t">>

\* A movie title, a recipient, a plot, a summary, a tracking id.
SomeTitle ==
    <<"U", "p">>

SomeRecipient ==
    <<"a", "@", "b", ".", "c">>

SomePlot ==
    <<"O", "l", "d", " ", "m", "a", "n", " ", "f", "l", "i", "e", "s">>

SomeSummary ==
    <<"B", "a", "l", "l", "o", "o", "n", "s">>

SomeEmailId ==
    <<"e", "1">>

\* Error texts of the providers.
ErrRateLimit ==
    <<"R", "a", "t", "e", " ", "L", "i", "m", "i", "t">>

ErrServerError ==
    <<"S", "e", "r", "v", "e", "r", " ", "E", "r", "r", "o", "r">>

ErrBadAddress ==
    <<"b", "a", "d", " ", "t", "o">>

ErrMailboxFull ==
    <<"f", "u", "l", "l">>

ErrTimeout ==
    <<"t", "i", "m", "e", "o", "u", "t">>

ErrQuota ==
    <<"q", "u", "o", "t", "a">>

ErrNotFound ==
    <<"M", "o", "v", "i", "e", " ", "n", "o", "t", " ", "f", "o", "u", "n",
      "d", "!">>

UnboundLocalMessage ==
    <<"c", "a", "n", "n", "o", "t", " ", "a", "c", "c", "e", "s", "s", " ",
      "l", "o", "c", "a", "l", " ", "v", "a", "r", "i", "a", "b", "l", "e",
      " ", "'", "s", "t", "a", "t", "u", "s", "_", "r", "e", "s", "u", "l",
      "t", "'">>

\* The provider answers one call: what each network call of the step can get.

\* The event's data dict: each field absent, null, empty or filled in.
EventInputs ==
    {DictFrom([movie_title |-> t, recipient_email |-> r]) :
        t \in {Absent, NoneVal, EmptyStr, SomeTitle},
        r \in {Absent, NoneVal, EmptyStr, SomeRecipient}}

\* session.get(url), raise_for_status() and response.json(): a JSON body, an
\* aiohttp.ClientError (connection or HTTP status), or a timeout of the call
\* (asyncio.TimeoutError, which is not an aiohttp.ClientError).
MetadataInputs ==
    {[kind |-> "json", data |-> DictFrom([Response |-> ResponseTrue, Plot |-> p])] :
        p \in {Absent, NoneVal, EmptyStr, NotAvailable, SomePlot}}
    \cup {[kind |-> "json", data |-> DictFrom([Response |-> f, Error |-> e])] :
        f \in {Absent, ResponseFalse}, e \in {Absent, ErrNotFound}}
    \cup {[kind |-> "ClientError", text |-> ErrServerError],
          [kind |-> "TimeoutError", text |-> ErrTimeout]}

\* client.chat.completions.create(...): a completion or an exception.
SummarizerInputs ==
    {[kind |-> "ok", content |-> SomeSummary],
     [kind |-> "raise", text |-> ErrQuota]}

\* resend.Emails.send(payload): a result dict (with or without an id) or an
\* exception.
SendInputs ==
    {[kind |-> "ok", data |-> [id |-> SomeEmailId]],
     [kind |-> "ok", data |-> EmptyDict],
     [kind |-> "raise", text |-> ErrRateLimit],
     [kind |-> "raise", text |-> ErrServerError],
     [kind |-> "raise", text |-> ErrBadAddress]}

\* resend.Emails.get(email_id): the email's record or an exception.
StatusInputs ==
    {[kind |-> "ok", data |-> DictFrom([last_event |-> s, reason |-> Absent])] :
        s \in {StatusPending, StatusSent, StatusDelivered, StatusBounced}}
    \cup {[kind |-> "ok", data |-> [last_event |-> StatusBounced, reason |-> r]] :
        r \in {ErrMailboxFull, ErrServerError, ErrRateLimit}}
    \cup {[kind |-> "raise", text |-> ErrTimeout]}

\* Round-trip time of one network call, in ticks.
Latencies == 0..MaxLatency

\* ------------------------------------------------------------ program constants

\* Ticks in n seconds.
Seconds(n) == 2 * n

\* max_duration_seconds: int = 30
\* retries=3 of create_function: the re-invocations the engine makes at most.
Retries == 3

DefaultMaxDuration == Seconds(30)

\* poll_interval = 2, kept as the exact fraction num/den of a second.
\* A first interval of 1 second in place of 2.
InitialIntervalOfOne == [num |-> 1, den |-> 1]

InitialInterval == [num |-> 2, den |-> 1]

\* NextInterval with the factor inverted: poll_interval /= 1.5
NextIntervalShrinking(i) == [num |-> i.num * 2, den |-> i.den * 3]

\* poll_interval *= 1.5
NextInterval(i) == [num |-> i.num * 3, den |-> i.den * 2]

\* SleepTicks without the cap: asyncio.sleep(poll_interval)
SleepTicksUncapped(i) == Seconds(i.num) \div i.den

\* min(poll_interval, 5), in ticks.
SleepTicks(i) ==
    IF i.num <= 5 * i.den THEN Seconds(i.num) \div i.den ELSE Seconds(5)

\* LoopCondition with <= in place of <.
LoopConditionInclusive(t, start, max) == t - start <= max

\* while time.time() - start_time < max_duration_seconds
\* The sum of a sequence of numbers.
RECURSIVE SumSeq(_)
SumSeq(q) == IF q = << >> THEN 0 ELSE Head(q) + SumSeq(Tail(q))

LoopCondition(t, start, max) == t - start < max

\* wait_for_status=True, as get_movie_plot calls send_email_with_resend.
WaitForStatus == TRUE

\* NoPlot without the test for the "N/A" sentinel.
NoPlotEmptyOnly(p) == Falsy(p)

\* if not plot or plot == "N/A"
NoPlot(p) == Falsy(p) \/ p = NotAvailable

\* if "rate limit" in str(e).lower() or "server error" in str(e).lower()
IsRetriableSendError(e) ==
    \/ Contains(Lower(e), RateLimitMarker)
    \/ Contains(Lower(e), ServerErrorMarker)

\* IsDelivered and IsBounced applied to the data's 'status' key, which Resend
\* does not set, in place of 'last_event': the value tested is always None.
IsDeliveredOfStatusKey(status) == NoneVal = StatusDelivered

IsBouncedOfStatusKey(status) == NoneVal = StatusBounced

\* if status == "delivered" / elif status == "bounced"
IsDelivered(status) == status = StatusDelivered

IsBounced(status) == status = StatusBounced

\* return f"Failed to summarize plot: {str(e)}"
FallbackSummary(e) == FailedToSummarizePrefix \o e

\* ------------------------------------------------------------ state

VARIABLES
    pc,                   \* where get_movie_plot is: start, fetch, summarize,
                          \* send, poll_loop, poll_query, poll_sleep, done
    event,                \* ctx.event.data
    movie_title,          \* locals of get_movie_plot
    recipient_email,
    movie_data,
    plot,
    summary,
    email_result,
    send_result,          \* locals of send_email_with_resend: result, email_id
    email_id,
    now,                  \* time.time(), in ticks
    start_time,           \* locals of poll_email_status
    poll_interval,
    max_duration_seconds,
    status_result,
    outcome,              \* how the invocation ended: running, returned,
                          \* NonRetriableError, Exception
    error,                \* str(e) of the exception the invocation raised
    result,               \* the dict the invocation returned
    calls,                \* network calls issued so far, per kind
    poll_result,          \* how poll_email_status ended, and when
    sleeps,               \* the asyncio.sleep durations so far, in ticks
    query,                \* the last status query: when started and finished
    observed,             \* the first terminal answer of the provider
    failures,             \* what the metadata fetch, the summarizer and the
                          \* send call raised
    cancelled,            \* whether the engine cancelled the invocation, and
                          \* the status queries issued until then
    attempt,              \* the re-invocations the engine has made for the
                          \* event
    pollers               \* the locals of the poll_email_status coroutines
                          \* of concurrent invocations, on one event loop

vars ==
    <<pc, event, movie_title, recipient_email, movie_data, plot, summary,
      email_result, send_result, email_id, now, start_time, poll_interval,
      max_duration_seconds, status_result, outcome, error, result, calls,
      poll_result, sleeps, query, observed, failures, cancelled, attempt,
      pollers>>

NoPollResult == [kind |-> "none"]

NoQuery == [count |-> 0]

NoObservation == [status |-> NoneVal]

NotCancelled == [requested |-> FALSE]

\* The concurrent invocations.
Invocations == {1, 2}

\* The locals of a poll_email_status coroutine that has not started.
IdlePoller(budget) ==
    [pc |-> "idle",
     max_duration_seconds |-> budget,
     start_time |-> 0,
     poll_interval |-> InitialInterval,
     status_result |-> Unbound,
     sleeps |-> << >>,
     issued |-> 0,
     wake |-> 0,
     poll_result |-> NoPollResult]

\* The state at the start of an invocation whose poller gets one of the given
\* budgets.
InitWith(budgets) ==
    /\ pc = "start"
    /\ event \in EventInputs
    /\ movie_title = NoneVal
    /\ recipient_email = NoneVal
    /\ movie_data = EmptyDict
    /\ plot = NoneVal
    /\ summary = NoneVal
    /\ email_result = EmptyDict
    /\ send_result = EmptyDict
    /\ email_id = NoneVal
    /\ now = 0
    /\ start_time = 0
    /\ poll_interval = InitialInterval
    /\ max_duration_seconds \in budgets
    /\ status_result = Unbound
    /\ outcome = "running"
    /\ error = EmptyStr
    /\ result = EmptyDict
    /\ calls = [metadata |-> 0, summarize |-> 0, send |-> 0, status |-> 0]
    /\ poll_result = NoPollResult
    /\ sleeps = << >>
    /\ query = NoQuery
    /\ observed = NoObservation
    /\ failures = [metadata |-> NoneVal, summarize |-> NoneVal,
                   send |-> NoneVal]
    /\ cancelled = NotCancelled
    /\ attempt = 0
    /\ pollers \in [Invocations -> {IdlePoller(b) : b \in budgets}]

\* An invocation as get_movie_plot makes it: the poller's budget is its default.
Init == InitWith({DefaultMaxDuration})

\* ------------------------------------------------------------ how a call ends

\* get_movie_plot goes on to its next await.
Continue(next) ==
    /\ pc' = next
    /\ UNCHANGED <<outcome, error, result, email_result, cancelled,
                   attempt, pollers>>

\* get_movie_plot raises: kind is NonRetriableError (permanent) or Exception
\* (any other exception: the engine may re-invoke).
StepRaises(kind, message) ==
    /\ pc' = "done"
    /\ outcome' = kind
    /\ error' = message
    /\ UNCHANGED <<result, email_result, cancelled, attempt, pollers>>

\* AssembleResult reading the poller's dict under 'status', a key it does not
\* hold, in place of 'final_status'.
AssembleResultOfStatusKey(r) ==
    LET delivery_status ==
            IF Get(r, "success", FALSE) /\ "delivery_status" \in DOMAIN r
            THEN Get(r["delivery_status"], "status", StatusUnknown)
            ELSE StatusUnknown
    IN  [movie_title |-> movie_title,
         summary |-> summary,
         email_sent |-> Get(r, "success", FALSE),
         email_delivery_status |-> delivery_status]

\* The StepResult get_movie_plot builds from what send_email_with_resend
\* returned.
AssembleResult(r) ==
    LET delivery_status ==
            IF Get(r, "success", FALSE) /\ "delivery_status" \in DOMAIN r
            THEN Get(r["delivery_status"], "final_status", StatusUnknown)
            ELSE StatusUnknown
    IN  [movie_title |-> movie_title,
         summary |-> summary,
         email_sent |-> Get(r, "success", FALSE),
         email_delivery_status |-> delivery_status]

\* send_email_with_resend returns r and get_movie_plot returns its StepResult.
StepReturns(r) ==
    /\ pc' = "done"
    /\ outcome' = "returned"
    /\ email_result' = r
    /\ result' = AssembleResult(r)
    /\ UNCHANGED <<error, cancelled, attempt, pollers>>

\* HandleSendException letting a marked error leave get_movie_plot as an
\* ordinary exception, which the engine retries.
HandleSendExceptionRetriable(e) ==
    IF IsRetriableSendError(e)
    THEN StepRaises("Exception", ErrorSendingPrefix \o e)
    ELSE StepRaises("NonRetriableError", ErrorSendingPrefix \o e)

\* The except clause of send_email_with_resend, around the send call and the
\* polling: a marked error is returned as a dict, any other is raised as
\* NonRetriableError, which get_movie_plot re-raises.
HandleSendException(e) ==
    IF IsRetriableSendError(e)
    THEN StepReturns([success |-> FALSE,
                      error |-> ErrorSendingPrefix \o e,
                      retriable |-> TRUE])
    ELSE StepRaises("NonRetriableError", ErrorSendingPrefix \o e)

\* poll_email_status returns r to send_email_with_resend.
PollerReturns(r) ==
    /\ poll_result' = [kind |-> "return", value |-> r, at |-> now']
    /\ StepReturns([success |-> TRUE,
                    data |-> send_result,
                    email_id |-> email_id,
                    delivery_status |-> r])

\* poll_email_status raises an exception of the given type.
PollerRaises(type, message) ==
    /\ poll_result' = [kind |-> "raise", type |-> type, error |-> message,
                       at |-> now']
    /\ HandleSendException(message)

\* ------------------------------------------------------------ get_movie_plot

\* Read and validate the event's fields.
Validate ==
    /\ pc = "start"
    /\ movie_title' = Get(event, "movie_title", NoneVal)
    /\ recipient_email' = Get(event, "recipient_email", NoneVal)
    /\ IF Falsy(movie_title')
       THEN StepRaises("NonRetriableError", NoTitleMessage)
       ELSE IF Falsy(recipient_email')
            THEN StepRaises("NonRetriableError", NoRecipientMessage)
            ELSE Continue("fetch")
    /\ UNCHANGED <<event, movie_data, plot, summary, send_result, email_id,
                   now, start_time, poll_interval, max_duration_seconds,
                   status_result, calls, poll_result, sleeps, query,
                   observed, failures>>

\* FetchMetadata with the 'not found' answer raised as an ordinary exception.
FetchMetadataNotFoundRetriable ==
    /\ pc = "fetch"
    /\ \E answer \in MetadataInputs :
        /\ calls' = [calls EXCEPT !.metadata = @ + 1]
        /\ IF answer.kind = "ClientError"
           THEN /\ StepRaises("Exception", FailedToFetchPrefix \o answer.text)
                /\ failures' = [failures EXCEPT !.metadata = answer.text]
                /\ UNCHANGED <<movie_data, plot>>
           ELSE IF answer.kind = "TimeoutError"
           THEN /\ StepRaises("Exception", answer.text)
                /\ failures' = [failures EXCEPT !.metadata = answer.text]
                /\ UNCHANGED <<movie_data, plot>>
           ELSE /\ movie_data' = answer.data
                /\ UNCHANGED failures
                /\ IF Get(movie_data', "Response", NoneVal) = ResponseTrue
                   THEN /\ plot' = Get(movie_data', "Plot", EmptyStr)
                        /\ IF NoPlot(plot')
                           THEN StepRaises("NonRetriableError",
                                    NoPlotPrefix \o movie_title \o Quote)
                           ELSE Continue("summarize")
                   ELSE /\ StepRaises("Exception",
                                MoviePrefix \o movie_title \o NotFoundInfix
                                \o Get(movie_data', "Error", UnknownError))
                        /\ UNCHANGED plot
    /\ UNCHANGED <<event, movie_title, recipient_email, summary, send_result,
                   email_id, now, start_time, poll_interval, max_duration_seconds,
                   status_result, poll_result, sleeps, query, observed>>

\* Fetch the movie from OMDB and check the answer.
FetchMetadata ==
    /\ pc = "fetch"
    /\ \E answer \in MetadataInputs :
        /\ calls' = [calls EXCEPT !.metadata = @ + 1]
        /\ IF answer.kind = "ClientError"
           THEN /\ StepRaises("Exception", FailedToFetchPrefix \o answer.text)
                /\ failures' = [failures EXCEPT !.metadata = answer.text]
                /\ UNCHANGED <<movie_data, plot>>
           ELSE IF answer.kind = "TimeoutError"
           THEN /\ StepRaises("Exception", answer.text)
                /\ failures' = [failures EXCEPT !.metadata = answer.text]
                /\ UNCHANGED <<movie_data, plot>>
           ELSE /\ movie_data' = answer.data
                /\ UNCHANGED failures
                /\ IF Get(movie_data', "Response", NoneVal) = ResponseTrue
                   THEN /\ plot' = Get(movie_data', "Plot", EmptyStr)
                        /\ IF NoPlot(plot')
                           THEN StepRaises("NonRetriableError",
                                    NoPlotPrefix \o movie_title \o Quote)
                           ELSE Continue("summarize")
                   ELSE /\ StepRaises("NonRetriableError",
                                MoviePrefix \o movie_title \o NotFoundInfix
                                \o Get(movie_data', "Error", UnknownError))
                        /\ UNCHANGED plot
    /\ UNCHANGED <<event, movie_title, recipient_email, summary, send_result,
                   email_id, now, start_time, poll_interval, max_duration_seconds,
                   status_result, poll_result, sleeps, query, observed>>

\* Summarize without the except clause: the summarizer's exception leaves
\* get_movie_plot as an ordinary exception.
SummarizeWithoutFallback ==
    /\ pc = "summarize"
    /\ \E answer \in SummarizerInputs :
        /\ calls' = [calls EXCEPT !.summarize = @ + 1]
        /\ IF answer.kind = "ok"
           THEN /\ summary' = answer.content
                /\ Continue("send")
                /\ UNCHANGED failures
           ELSE /\ failures' = [failures EXCEPT !.summarize = answer.text]
                /\ StepRaises("Exception", answer.text)
                /\ UNCHANGED summary
    /\ UNCHANGED <<event, movie_title, recipient_email, movie_data, plot,
                   send_result, email_id, now, start_time, poll_interval,
                   max_duration_seconds, status_result, poll_result, sleeps,
                   query, observed>>

\* summarize_plot_with_openai: the completion's text, or the fallback string
\* when the call raises.
Summarize ==
    /\ pc = "summarize"
    /\ \E answer \in SummarizerInputs :
        /\ calls' = [calls EXCEPT !.summarize = @ + 1]
        /\ IF answer.kind = "ok"
           THEN /\ summary' = answer.content
                /\ UNCHANGED failures
           ELSE /\ summary' = FallbackSummary(answer.text)
                /\ failures' = [failures EXCEPT !.summarize = answer.text]
    /\ Continue("send")
    /\ UNCHANGED <<event, movie_title, recipient_email, movie_data, plot,
                   send_result, email_id, now, start_time, poll_interval,
                   max_duration_seconds, status_result, poll_result, sleeps,
                   query, observed>>

\* SendEmail with a retry in the process: after an error that holds a
\* retriable marker the send call is made again.
SendEmailRetrying ==
    /\ pc = "send"
    /\ \E lat \in Latencies, answer \in SendInputs :
        /\ now' = now + lat
        /\ calls' = [calls EXCEPT !.send = @ + 1]
        /\ IF answer.kind = "raise"
           THEN /\ failures' = [failures EXCEPT !.send = answer.text]
                /\ IF IsRetriableSendError(answer.text)
                   THEN Continue("send")
                   ELSE HandleSendException(answer.text)
                /\ UNCHANGED <<send_result, email_id, start_time,
                               poll_interval>>
           ELSE /\ send_result' = answer.data
                /\ email_id' = Get(send_result', "id", NoneVal)
                /\ UNCHANGED failures
                /\ IF WaitForStatus /\ ~Falsy(email_id')
                   THEN /\ start_time' = now'
                        /\ poll_interval' = InitialInterval
                        /\ Continue("poll_loop")
                   ELSE /\ StepReturns([success |-> TRUE,
                                        data |-> send_result',
                                        email_id |-> email_id'])
                        /\ UNCHANGED <<start_time, poll_interval>>
    /\ UNCHANGED <<event, movie_title, recipient_email, movie_data, plot,
                   summary, max_duration_seconds, status_result, poll_result,
                   sleeps, query, observed>>

\* send_email_with_resend up to its first await of the poller: send the
\* email, then start polling for its status or return at once.
SendEmail ==
    /\ pc = "send"
    /\ \E lat \in Latencies, answer \in SendInputs :
        /\ now' = now + lat
        /\ calls' = [calls EXCEPT !.send = @ + 1]
        /\ IF answer.kind = "raise"
           THEN /\ failures' = [failures EXCEPT !.send = answer.text]
                /\ HandleSendException(answer.text)
                /\ UNCHANGED <<send_result, email_id, start_time,
                               poll_interval>>
           ELSE /\ send_result' = answer.data
                /\ email_id' = Get(send_result', "id", NoneVal)
                /\ UNCHANGED failures
                /\ IF WaitForStatus /\ ~Falsy(email_id')
                   THEN /\ start_time' = now'
                        /\ poll_interval' = InitialInterval
                        /\ Continue("poll_loop")
                   ELSE /\ StepReturns([success |-> TRUE,
                                        data |-> send_result',
                                        email_id |-> email_id'])
                        /\ UNCHANGED <<start_time, poll_interval>>
    /\ UNCHANGED <<event, movie_title, recipient_email, movie_data, plot,
                   summary, max_duration_seconds, status_result, poll_result,
                   sleeps, query, observed>>

\* ------------------------------------------------------------ poll_email_status

\* PollLoop with a loop condition on the sum of the sleeps made so far
\* instead of the clock.
PollLoopOnSleeps ==
    /\ pc = "poll_loop"
    /\ now' = now
    /\ IF SumSeq(sleeps) < max_duration_seconds
       THEN /\ Continue("poll_query")
            /\ UNCHANGED poll_result
       ELSE IF status_result = Unbound
            THEN PollerRaises("UnboundLocalError", UnboundLocalMessage)
            ELSE PollerReturns([success |-> TRUE,
                                final_status |-> StatusUnknown,
                                last_check |->
                                    Get(status_result, "data", EmptyDict)])
    /\ UNCHANGED <<event, movie_title, recipient_email, movie_data, plot,
                   summary, send_result, email_id, start_time,
                   poll_interval, max_duration_seconds, status_result, calls,
                   sleeps, query, observed, failures>>

\* The while condition: go on to the next status query, or leave the loop and
\* return 'unknown' with the last check's data.
PollLoop ==
    /\ pc = "poll_loop"
    /\ now' = now
    /\ IF LoopCondition(now, start_time, max_duration_seconds)
       THEN /\ Continue("poll_query")
            /\ UNCHANGED poll_result
       ELSE IF status_result = Unbound
            THEN PollerRaises("UnboundLocalError", UnboundLocalMessage)
            ELSE PollerReturns([success |-> TRUE,
                                final_status |-> StatusUnknown,
                                last_check |->
                                    Get(status_result, "data", EmptyDict)])
    /\ UNCHANGED <<event, movie_title, recipient_email, movie_data, plot,
                   summary, send_result, email_id, start_time,
                   poll_interval, max_duration_seconds, status_result, calls,
                   sleeps, query, observed, failures>>

\* Is the provider's answer a terminal status of the email?
TerminalAnswer(answer) ==
    /\ answer.kind = "ok"
    /\ Get(answer.data, "last_event", NoneVal) \in {StatusDelivered, StatusBounced}

\* CheckEmailStatus without the try/except of check_email_status: an
\* exception of the status call leaves the poll loop.
CheckEmailStatusUncaught ==
    /\ pc = "poll_query"
    /\ \E lat \in Latencies, answer \in StatusInputs :
        /\ now' = now + lat
        /\ calls' = [calls EXCEPT !.status = @ + 1]
        /\ query' = [count |-> calls'.status, started |-> now,
                     finished |-> now']
        /\ observed' =
            IF observed = NoObservation /\ TerminalAnswer(answer)
            THEN [status |-> answer.data["last_event"],
                  reason |-> Get(answer.data, "reason", NoneVal),
                  at |-> now', queries |-> calls'.status,
                  sleeps |-> Len(sleeps)]
            ELSE observed
        /\ IF answer.kind = "raise"
           THEN /\ UNCHANGED status_result
                /\ PollerRaises("Exception", answer.text)
           ELSE /\ status_result' = [success |-> TRUE, data |-> answer.data]
                /\ LET data == Get(status_result', "data", EmptyDict)
                       status == Get(data, "last_event", NoneVal)
                   IN  IF IsDelivered(status)
                       THEN PollerReturns([success |-> TRUE,
                                           final_status |-> status,
                                           data |-> data])
                       ELSE IF IsBounced(status)
                       THEN PollerRaises("NonRetriableError",
                                EmailBouncedPrefix
                                \o Get(data, "reason", UnknownReason))
                       ELSE /\ Continue("poll_sleep")
                            /\ UNCHANGED poll_result
    /\ UNCHANGED <<event, movie_title, recipient_email, movie_data, plot,
                   summary, send_result, email_id, start_time, poll_interval,
                   max_duration_seconds, sleeps, failures>>

\* check_email_status and what the loop body does with its result: return on
\* 'delivered', raise on 'bounced', otherwise go to sleep.
CheckEmailStatus ==
    /\ pc = "poll_query"
    /\ \E lat \in Latencies, answer \in StatusInputs :
        /\ now' = now + lat
        /\ calls' = [calls EXCEPT !.status = @ + 1]
        /\ query' = [count |-> calls'.status, started |-> now,
                     finished |-> now']
        /\ observed' =
            IF observed = NoObservation /\ TerminalAnswer(answer)
            THEN [status |-> answer.data["last_event"],
                  reason |-> Get(answer.data, "reason", NoneVal),
                  at |-> now', queries |-> calls'.status,
                  sleeps |-> Len(sleeps)]
            ELSE observed
        /\ IF answer.kind = "raise"
           THEN /\ status_result' =
                    [success |-> FALSE,
                     error |-> ErrorCheckingPrefix \o answer.text]
                /\ Continue("poll_sleep")
                /\ UNCHANGED poll_result
           ELSE /\ status_result' = [success |-> TRUE, data |-> answer.data]
                /\ LET data == Get(status_result', "data", EmptyDict)
                       status == Get(data, "last_event", NoneVal)
                   IN  IF IsDelivered(status)
                       THEN PollerReturns([success |-> TRUE,
                                           final_status |-> status,
                                           data |-> data])
                       ELSE IF IsBounced(status)
                       THEN PollerRaises("NonRetriableError",
                                EmailBouncedPrefix
                                \o Get(data, "reason", UnknownReason))
                       ELSE /\ Continue("poll_sleep")
                            /\ UNCHANGED poll_result
    /\ UNCHANGED <<event, movie_title, recipient_email, movie_data, plot,
                   summary, send_result, email_id, start_time, poll_interval,
                   max_duration_seconds, sleeps, failures>>

\* await asyncio.sleep(min(poll_interval, 5)); poll_interval *= 1.5
Sleep ==
    /\ pc = "poll_sleep"
    /\ now' = now + SleepTicks(poll_interval)
    /\ sleeps' = Append(sleeps, SleepTicks(poll_interval))
    /\ poll_interval' = NextInterval(poll_interval)
    /\ Continue("poll_loop")
    /\ UNCHANGED <<event, movie_title, recipient_email, movie_data, plot,
                   summary, send_result, email_id, start_time,
                   max_duration_seconds, status_result, calls, poll_result,
                   query, observed, failures>>

\* ------------------------------------------------------------ specification

\* The engine cancels the invocation while poll_email_status awaits: at the
\* await of a status query the call has been handed to its thread, so the
\* query is issued and its answer is dropped; at the await of asyncio.sleep
\* the sleep is cut short. asyncio.CancelledError is raised at the await; in
\* this variant 'except Exception' catches it, as on Python before 3.8:
\* check_email_status takes it for a failed query, and at the sleep
\* send_email_with_resend takes it for an error of the send.
CancelCaughtAsException ==
    /\ pc \in {"poll_query", "poll_sleep"}
    /\ now' = now
    /\ IF pc = "poll_query"
       THEN /\ calls' = [calls EXCEPT !.status = @ + 1]
            /\ query' = [count |-> calls'.status, started |-> now,
                         finished |-> now']
            /\ status_result' =
                   [success |-> FALSE, error |-> ErrorCheckingPrefix]
            /\ pc' = "poll_sleep"
            /\ UNCHANGED <<outcome, error, result, email_result, poll_result>>
       ELSE /\ poll_result' = [kind |-> "raise", type |-> "CancelledError",
                               error |-> EmptyStr, at |-> now']
            /\ pc' = "done"
            /\ outcome' = "NonRetriableError"
            /\ error' = ErrorSendingPrefix
            /\ UNCHANGED <<calls, query, status_result, result, email_result>>
    /\ cancelled' = [requested |-> TRUE, at |-> pc, queries |-> calls'.status]
    /\ UNCHANGED <<event, movie_title, recipient_email, movie_data, plot,
                   summary, send_result, email_id, start_time, poll_interval,
                   max_duration_seconds, sleeps, observed, failures,
                   attempt, pollers>>

\* The engine cancels the invocation while poll_email_status awaits: at the
\* await of a status query the call has been handed to its thread, so the
\* query is issued and its answer is dropped; at the await of asyncio.sleep
\* the sleep is cut short. asyncio.CancelledError is raised at the await; it
\* is a BaseException (asyncio.to_thread needs Python 3.9), so no
\* 'except Exception' of check_email_status, send_email_with_resend or
\* get_movie_plot catches it and it leaves get_movie_plot.
Cancel ==
    /\ pc \in {"poll_query", "poll_sleep"}
    /\ now' = now
    /\ IF pc = "poll_query"
       THEN /\ calls' = [calls EXCEPT !.status = @ + 1]
            /\ query' = [count |-> calls'.status, started |-> now,
                         finished |-> now']
       ELSE UNCHANGED <<calls, query>>
    /\ poll_result' = [kind |-> "raise", type |-> "CancelledError",
                       error |-> EmptyStr, at |-> now']
    /\ pc' = "done"
    /\ outcome' = "CancelledError"
    /\ cancelled' = [requested |-> TRUE, at |-> pc, queries |-> calls'.status]
    /\ UNCHANGED <<event, movie_title, recipient_email, movie_data, plot,
                   summary, send_result, email_id, start_time, poll_interval,
                   max_duration_seconds, status_result, error, result,
                   email_result, sleeps, observed, failures, attempt,
                   pollers>>

\* The engine invokes get_movie_plot again for the same event, after an
\* invocation that ended with an exception other than NonRetriableError, at
\* most Retries times. The new invocation starts with fresh locals; the calls
\* made for the event so far are kept counted, and the clock runs on.
Reinvoke ==
    /\ pc = "done"
    /\ outcome = "Exception"
    /\ attempt < Retries
    /\ attempt' = attempt + 1
    /\ pc' = "start"
    /\ movie_title' = NoneVal
    /\ recipient_email' = NoneVal
    /\ movie_data' = EmptyDict
    /\ plot' = NoneVal
    /\ summary' = NoneVal
    /\ email_result' = EmptyDict
    /\ send_result' = EmptyDict
    /\ email_id' = NoneVal
    /\ start_time' = 0
    /\ poll_interval' = InitialInterval
    /\ status_result' = Unbound
    /\ outcome' = "running"
    /\ error' = EmptyStr
    /\ result' = EmptyDict
    /\ poll_result' = NoPollResult
    /\ sleeps' = << >>
    /\ query' = NoQuery
    /\ observed' = NoObservation
    /\ failures' = [metadata |-> NoneVal, summarize |-> NoneVal,
                    send |-> NoneVal]
    /\ UNCHANGED <<event, now, max_duration_seconds, calls, cancelled,
                   pollers>>

Next ==
    \/ Validate
    \/ FetchMetadata
    \/ Summarize
    \/ SendEmail
    \/ PollLoop
    \/ CheckEmailStatus
    \/ Sleep

Spec == Init /\ [][Next]_vars

\* poll_email_status with other values of its parameter max_duration_seconds:
\* budgets of 0 to MaxBudget seconds.
Budgets == {Seconds(d) : d \in 0..MaxBudget}

InitBudgets == InitWith(Budgets)

SpecBudgets == InitBudgets /\ [][Next]_vars

\* Invocations the engine may cancel while their poller awaits.
NextCancel ==
    \/ Next
    \/ Cancel

SpecCancel == Init /\ [][NextCancel]_vars

\* The invocations the engine makes for one event: the first, and the
\* re-invocations after retriable failures.
NextRetries ==
    \/ Next
    \/ Reinvoke

SpecRetries == Init /\ [][NextRetries]_vars

\* Invocations in which every status query and every sleep of the poller
\* completes, and the loop goes on after each.
SpecFair ==
    /\ Init
    /\ [][Next]_vars
    /\ WF_vars(PollLoop)
    /\ WF_vars(CheckEmailStatus)
    /\ WF_vars(Sleep)

\* A provider whose status call fails (resend.Emails.get raises) until it
\* answers with a terminal status: it never answers 'pending'.
OutageAnswers ==
    pc = "poll_query" =>
        \/ ~Get(status_result', "success", FALSE)
        \/ observed' # NoObservation

NextOutage ==
    \/ Validate
    \/ FetchMetadata
    \/ Summarize
    \/ SendEmail
    \/ PollLoop
    \/ CheckEmailStatus /\ OutageAnswers
    \/ Sleep

SpecOutage == Init /\ [][NextOutage]_vars

\* ------------------------------------------------------------ concurrent pollers

\* The poll_email_status coroutines of two invocations on one event loop,
\* sharing its clock. Each holds its own locals; a coroutine runs from one
\* await to the next without the clock advancing, and the clock advances only
\* while every started coroutine is waiting for a status query or a sleep that
\* is not yet due.

\* Everything but the clock and the pollers.
invocationVars ==
    <<pc, event, movie_title, recipient_email, movie_data, plot, summary,
      email_result, send_result, email_id, start_time, poll_interval,
      max_duration_seconds, status_result, outcome, error, result, calls,
      poll_result, sleeps, query, observed, failures, cancelled, attempt>>

\* poll_email_status of invocation i starts: reads the clock, sets the
\* interval. The invocations are numbered in the order they reach polling.
StartPolling ==
    \E i \in Invocations :
        /\ pollers[i].pc = "idle"
        /\ \A j \in Invocations : j < i => pollers[j].pc # "idle"
        /\ pollers' = [pollers EXCEPT ![i] =
               [@ EXCEPT !.pc = "poll_loop",
                         !.start_time = now,
                         !.poll_interval = InitialInterval]]
        /\ UNCHANGED <<now, invocationVars>>

\* The while test of invocation i: on true the status query is issued, its
\* answer due after the query's latency; on false the poller ends.
TestAndQuery ==
    \E i \in Invocations :
        LET p == pollers[i]
        IN  /\ p.pc = "poll_loop"
            /\ IF LoopCondition(now, p.start_time, p.max_duration_seconds)
               THEN \E lat \in Latencies :
                        pollers' = [pollers EXCEPT ![i] =
                            [@ EXCEPT !.pc = "poll_query",
                                      !.issued = now,
                                      !.wake = now + lat]]
               ELSE pollers' = [pollers EXCEPT ![i] =
                        [@ EXCEPT !.pc = "done",
                                  !.poll_result =
                                      IF p.status_result = Unbound
                                      THEN [kind |-> "raise",
                                            type |-> "UnboundLocalError",
                                            error |-> UnboundLocalMessage,
                                            at |-> now]
                                      ELSE [kind |-> "return",
                                            value |->
                                                [success |-> TRUE,
                                                 final_status |-> StatusUnknown,
                                                 last_check |->
                                                     Get(p.status_result,
                                                         "data", EmptyDict)],
                                            at |-> now]]]
            /\ UNCHANGED <<now, invocationVars>>

\* What poller p does with the answer it awaited: return on 'delivered',
\* raise on 'bounced', and otherwise start the sleep.
AfterAnswer(p, answer) ==
    LET sr == IF answer.kind = "raise"
              THEN [success |-> FALSE,
                    error |-> ErrorCheckingPrefix \o answer.text]
              ELSE [success |-> TRUE, data |-> answer.data]
        data == Get(sr, "data", EmptyDict)
        status == Get(data, "last_event", NoneVal)
        q == [p EXCEPT !.status_result = sr]
    IN  IF sr["success"] /\ IsDelivered(status)
        THEN [q EXCEPT !.pc = "done",
                       !.poll_result =
                           [kind |-> "return",
                            value |-> [success |-> TRUE,
                                       final_status |-> status,
                                       data |-> data],
                            at |-> now]]
        ELSE IF sr["success"] /\ IsBounced(status)
        THEN [q EXCEPT !.pc = "done",
                       !.poll_result =
                           [kind |-> "raise",
                            type |-> "NonRetriableError",
                            error |-> EmailBouncedPrefix
                                \o Get(data, "reason", UnknownReason),
                            at |-> now]]
        ELSE [q EXCEPT !.pc = "poll_sleep",
                       !.wake = now + SleepTicks(p.poll_interval),
                       !.sleeps = Append(@, SleepTicks(p.poll_interval))]

\* AnswerArrives with the sleep taken from the interval of the first
\* invocation, as if poll_interval were one variable of the module.
AnswerArrivesSharedInterval ==
    \E i \in Invocations :
        /\ pollers[i].pc = "poll_query"
        /\ pollers[i].wake <= now
        /\ \E answer \in StatusInputs :
               pollers' = [pollers EXCEPT ![i] =
                   AfterAnswer([pollers[i] EXCEPT !.poll_interval =
                                    pollers[1].poll_interval], answer)]
        /\ UNCHANGED <<now, invocationVars>>

\* The status query of invocation i completes.
AnswerArrives ==
    \E i \in Invocations :
        /\ pollers[i].pc = "poll_query"
        /\ pollers[i].wake <= now
        /\ \E answer \in StatusInputs :
               pollers' = [pollers EXCEPT ![i] =
                   AfterAnswer(pollers[i], answer)]
        /\ UNCHANGED <<now, invocationVars>>

\* The sleep of invocation i completes: poll_interval *= 1.5.
WakeUp ==
    \E i \in Invocations :
        /\ pollers[i].pc = "poll_sleep"
        /\ pollers[i].wake <= now
        /\ pollers' = [pollers EXCEPT ![i] =
               [@ EXCEPT !.pc = "poll_loop",
                         !.poll_interval = NextInterval(@)]]
        /\ UNCHANGED <<now, invocationVars>>

\* The clock advances by one tick while some coroutine waits and none can run.
Tick ==
    /\ \E i \in Invocations : pollers[i].pc \in {"poll_query", "poll_sleep"}
    /\ \A i \in Invocations :
        /\ pollers[i].pc # "poll_loop"
        /\ pollers[i].pc \in {"poll_query", "poll_sleep"} =>
               pollers[i].wake > now
    /\ now' = now + 1
    /\ UNCHANGED <<pollers, invocationVars>>

NextConcurrent ==
    \/ StartPolling
    \/ TestAndQuery
    \/ AnswerArrives
    \/ WakeUp
    \/ Tick

\* Two invocations that are about to reach polling, with the same budget.
InitConcurrent ==
    /\ InitWith(Budgets)
    /\ \A i \in Invocations :
        pollers[i].max_duration_seconds = max_duration_seconds
    /\ event = DictFrom([movie_title |-> SomeTitle,
                         recipient_email |-> SomeRecipient])

SpecConcurrent == InitConcurrent /\ [][NextConcurrent]_vars

\* ------------------------------------------------------------ claims

\* The invocation has ended, by a return or by an exception.
Ended == pc = "done"

\* The StepResult of an invocation that returned one.
ReturnedResult == outcome = "returned" /\ result # EmptyDict

\* C1: when the send call raises an error whose text holds a rate-limit or
\* server-error marker, the step ends with a retriable failure (an ordinary
\* exception) and returns no StepResult; when it raises any other error, the
\* step ends with NonRetriableError.
C1_SendErrorClassified ==
    (Ended /\ failures.send # NoneVal) =>
        IF IsRetriableSendError(failures.send)
        THEN outcome = "Exception" /\ ~ReturnedResult
        ELSE outcome = "NonRetriableError"

\* C2: once the poller has observed 'bounced', whatever the bounce reason, the
\* step ends with NonRetriableError and returns no StepResult.
C2_BounceIsPermanent ==
    (Ended /\ observed.status = StatusBounced) =>
        outcome = "NonRetriableError" /\ ~ReturnedResult

\* C3: poll_email_status raises NonRetriableError on the first status query
\* that observes 'bounced', whatever budget remains: it ends at the time of
\* that observation, with no sleep and no status query after it.
C3_BounceRaisesAtOnce ==
    observed.status = StatusBounced =>
        /\ poll_result.kind = "raise"
        /\ poll_result.type = "NonRetriableError"
        /\ poll_result.error =
               EmailBouncedPrefix
               \o (IF observed.reason = NoneVal THEN UnknownReason
                   ELSE observed.reason)
        /\ poll_result.at = observed.at
        /\ calls.status = observed.queries
        /\ Len(sleeps) = observed.sleeps
        /\ Ended

\* C3 witness: a bounce observed by a later query than the first, with budget
\* left, has made the poller raise.
C3_Witness ==
    /\ observed.status = StatusBounced
    /\ observed.queries > 1
    /\ observed.at - start_time < max_duration_seconds
    /\ poll_result.kind = "raise"

\* C4: poll_email_status returns final_status 'delivered' on the first status
\* query that observes 'delivered': it returns at the time of that
\* observation, with no sleep and no status query after it, and the status it
\* reports stays 'delivered'.
C4_DeliveredReturnsAtOnce ==
    observed.status = StatusDelivered =>
        /\ poll_result.kind = "return"
        /\ poll_result.value["final_status"] = StatusDelivered
        /\ poll_result.at = observed.at
        /\ calls.status = observed.queries
        /\ Len(sleeps) = observed.sleeps
        /\ Ended
        /\ ReturnedResult
        /\ result["email_delivery_status"] = StatusDelivered

\* C4 witness: 'delivered' observed 4 seconds into a 30 second budget, and the
\* poller has returned at 4 seconds.
C4_Witness ==
    /\ observed.status = StatusDelivered
    /\ observed.at - start_time = Seconds(4)
    /\ poll_result.kind = "return"
    /\ poll_result.at - start_time = Seconds(4)
    /\ max_duration_seconds = Seconds(30)

\* poll_email_status has ended, by a return or by an exception.
PollEnded == poll_result.kind # "none"

\* poll_email_status has returned final_status 'unknown'.
ReturnedUnknown ==
    /\ poll_result.kind = "return"
    /\ poll_result.value["final_status"] = StatusUnknown

\* Seconds since the start of polling, in ticks, at clock reading t.
Elapsed(t) == t - start_time

\* C5 as stated: the poller returns 'unknown' if and only if no status query
\* observed 'delivered' or 'bounced' before the 30 seconds of budget elapsed.
C5_UnknownIffNoTerminalBeforeDeadline ==
    PollEnded =>
        (ReturnedUnknown <=>
            ~(/\ observed # NoObservation
              /\ Elapsed(observed.at) < max_duration_seconds))

\* C5 as amended: with the 30s budget, the poller returns 'unknown' if and only
\* if none of the status queries it started observed 'delivered' or 'bounced';
\* every query is started before 30s have elapsed, but the answer of the last
\* one may arrive later and is still acted on.  It returns 'unknown' only once
\* 30s have elapsed; pending and unrecognized statuses and failed queries are
\* not terminal observations.
C5_UnknownIffNoTerminalAnswer ==
    /\ query.count > 0 => Elapsed(query.started) < max_duration_seconds
    /\ PollEnded =>
        /\ ReturnedUnknown <=> observed = NoObservation
        /\ ReturnedUnknown => Elapsed(poll_result.at) >= max_duration_seconds
        /\ ReturnedUnknown =>
            poll_result.value["last_check"] = Get(status_result, "data", EmptyDict)

\* C5 witness: a provider that answered 'pending' to all 8 queries of the
\* 30 seconds has made the poller return 'unknown'.
C5_Witness ==
    /\ ReturnedUnknown
    /\ calls.status = 8
    /\ status_result["success"]
    /\ status_result["data"]["last_event"] = StatusPending
    /\ max_duration_seconds = Seconds(30)

\* C6: from the start of polling to its return, the time spent sleeping and
\* querying exceeds the deadline by at most one poll round-trip: the last
\* status query's round-trip, followed by at most one sleep of at most 5
\* seconds; a terminal observation ends the poller less than the last query's
\* round-trip after the deadline.
C6_OvershootBounded ==
    PollEnded =>
        /\ Elapsed(poll_result.at)
               <= max_duration_seconds
                  + (query.finished - query.started) + Seconds(5)
        /\ observed # NoObservation =>
               Elapsed(poll_result.at)
                   < max_duration_seconds + (query.finished - query.started)

\* C6 witness: the poller has returned 'unknown' 34.5 seconds after its start,
\* past the deadline of 30 seconds, the last sleep having begun at 29.5s.
C6_Witness ==
    /\ ReturnedUnknown
    /\ Elapsed(poll_result.at) = Seconds(69) \div 2
    /\ Elapsed(poll_result.at) > max_duration_seconds

\* The i-th sleep of a poll loop, in ticks: 2s, 3s, 4.5s, then 5s.
ExpectedSleep(i) ==
    IF i = 1 THEN Seconds(2)
    ELSE IF i = 2 THEN Seconds(3)
    ELSE IF i = 3 THEN Seconds(9) \div 2
    ELSE Seconds(5)

\* C7: the sleeps of a poll loop are non-decreasing and each is at most 5
\* seconds: 2, 3, 4.5, 5, 5, ... seconds, the nominal interval being 2s
\* multiplied by 1.5 after every sleep.
C7_BackoffCapped ==
    /\ \A i \in 1..Len(sleeps) :
        /\ sleeps[i] <= Seconds(5)
        /\ sleeps[i] = ExpectedSleep(i)
        /\ i > 1 => sleeps[i - 1] <= sleeps[i]
    /\ poll_interval = [num |-> 2 * 3 ^ Len(sleeps), den |-> 2 ^ Len(sleeps)]

\* C7 witness: five sleeps, of 2, 3, 4.5, 5 and 5 seconds.
C7_Witness ==
    /\ Len(sleeps) = 5
    /\ sleeps = <<4, 6, 9, 10, 10>>

\* The event lacks the field, or holds it empty.
MissingOrEmpty(d, k) == k \notin DOMAIN d \/ d[k] = EmptyStr \/ d[k] = NoneVal

NoCalls == calls = [metadata |-> 0, summarize |-> 0, send |-> 0, status |-> 0]

\* C8: a failure of the summarizer call never aborts the step: the summary
\* becomes the fallback string, the step ends only after it has called the
\* email sender, and when the sender succeeds (the send call returns and no
\* bounce is observed) the step returns a StepResult with email_sent true
\* whose summary is the fallback string.
C8_SummarizerFailureNotFatal ==
    failures.summarize # NoneVal =>
        /\ summary = FailedToSummarizePrefix \o failures.summarize
        /\ Ended => calls.send = 1
        /\ (Ended /\ failures.send = NoneVal /\ observed.status # StatusBounced) =>
            /\ ReturnedResult
            /\ result["email_sent"]
            /\ email_result["success"]
            /\ result["summary"] = FailedToSummarizePrefix \o failures.summarize

\* C8 witness: the summarizer raised, the email was sent and delivered, and
\* the StepResult carries the fallback summary.
C8_Witness ==
    /\ failures.summarize = ErrQuota
    /\ ReturnedResult
    /\ result["email_sent"]
    /\ result["summary"] = FailedToSummarizePrefix \o ErrQuota
    /\ result["email_delivery_status"] = StatusDelivered
    /\ calls.send = 1

\* C9: for an event whose movie_title or recipient_email is missing or empty,
\* the step ends with NonRetriableError at its first step and has issued no
\* network call: no metadata fetch, no summarization, no send, no status
\* query.
C9_InvalidInputNoCalls ==
    (MissingOrEmpty(event, "movie_title")
     \/ MissingOrEmpty(event, "recipient_email")) =>
        /\ NoCalls
        /\ pc \in {"start", "done"}
        /\ Ended => outcome = "NonRetriableError" /\ ~ReturnedResult

\* C9 witness: an event with a title and an empty recipient has ended the
\* step with NonRetriableError.
C9_Witness ==
    /\ event = [movie_title |-> SomeTitle, recipient_email |-> EmptyStr]
    /\ Ended
    /\ outcome = "NonRetriableError"
    /\ error = NoRecipientMessage

\* The metadata answer is a success whose Plot is absent, empty or "N/A".
PlotMissing(d) ==
    /\ Get(d, "Response", NoneVal) = ResponseTrue
    /\ "Plot" \notin DOMAIN d \/ d["Plot"] = EmptyStr \/ d["Plot"] = NotAvailable

\* C10: for a successful metadata response whose Plot is absent, empty or
\* "N/A", the step ends with NonRetriableError in the step that fetched it,
\* and calls neither the summarizer nor the email sender nor the poller.
C10_NoPlotNoEmail ==
    PlotMissing(movie_data) =>
        /\ Ended
        /\ outcome = "NonRetriableError"
        /\ ~ReturnedResult
        /\ error = NoPlotPrefix \o movie_title \o Quote
        /\ calls = [metadata |-> 1, summarize |-> 0, send |-> 0, status |-> 0]

\* C10 witness: OMDB answered with Plot "N/A" and the step has ended.
C10_Witness ==
    /\ Get(movie_data, "Response", NoneVal) = ResponseTrue
    /\ Get(movie_data, "Plot", NoneVal) = NotAvailable
    /\ outcome = "NonRetriableError"

\* The metadata fetch has been answered, and the answer is not a success.
NotFoundAnswer ==
    /\ calls.metadata > 0
    /\ failures.metadata = NoneVal
    /\ Get(movie_data, "Response", NoneVal) # ResponseTrue

\* C11: a metadata answer that reports 'not found' (Response not "True") ends
\* the step with NonRetriableError; a network, timeout or HTTP error of the
\* lookup ends it with an ordinary, retriable exception; in both cases
\* neither the summarizer nor the email sender is called.
C11_LookupFailuresClassified ==
    /\ NotFoundAnswer =>
        /\ Ended
        /\ outcome = "NonRetriableError"
        /\ error = MoviePrefix \o movie_title \o NotFoundInfix
                   \o Get(movie_data, "Error", UnknownError)
        /\ ~ReturnedResult
        /\ calls.summarize = 0 /\ calls.send = 0 /\ calls.status = 0
    /\ failures.metadata # NoneVal =>
        /\ Ended
        /\ outcome = "Exception"
        /\ ~ReturnedResult
        /\ calls.summarize = 0 /\ calls.send = 0 /\ calls.status = 0

\* C11 witness: the lookup failed with an HTTP error and the step has ended
\* with the retriable exception 'Failed to fetch movie data: ...'.
C11_Witness ==
    /\ failures.metadata = ErrServerError
    /\ outcome = "Exception"
    /\ error = FailedToFetchPrefix \o ErrServerError
    /\ calls.metadata = 1

\* C12: the email_delivery_status of a returned StepResult is 'delivered' or
\* 'unknown', never 'bounced'; it is the final_status the poller returned,
\* and 'unknown' when the poller returned none; when the send succeeded and
\* the poller observed 'delivered', the StepResult is the event's title, the
\* summarizer's summary, email_sent true and 'delivered'.
C12_ResultCarriesPollerStatus ==
    ReturnedResult =>
        /\ result["email_delivery_status"] \in {StatusDelivered, StatusUnknown}
        /\ result["email_delivery_status"] # StatusBounced
        /\ poll_result.kind = "return" =>
            /\ result["email_delivery_status"] = poll_result.value["final_status"]
            /\ result["email_sent"]
        /\ poll_result.kind # "return" =>
            result["email_delivery_status"] = StatusUnknown
        /\ result["movie_title"] = event["movie_title"]
        /\ failures.summarize = NoneVal => result["summary"] = SomeSummary
        /\ observed.status = StatusDelivered =>
            result = [movie_title |-> event["movie_title"],
                      summary |-> summary,
                      email_sent |-> TRUE,
                      email_delivery_status |-> StatusDelivered]

\* C12 witness: the send succeeded, the poller observed 'delivered' at 2
\* seconds, and the StepResult holds the summarizer's summary and 'delivered'.
C12_Witness ==
    /\ ReturnedResult
    /\ observed.status = StatusDelivered
    /\ Elapsed(observed.at) = Seconds(2)
    /\ result = [movie_title |-> SomeTitle,
                 summary |-> SomeSummary,
                 email_sent |-> TRUE,
                 email_delivery_status |-> StatusDelivered]

\* The metadata fetch was answered with a plot that can be summarized.
FetchSucceeded ==
    /\ failures.metadata = NoneVal
    /\ Get(movie_data, "Response", NoneVal) = ResponseTrue
    /\ Get(movie_data, "Plot", NoneVal) \notin {NoneVal, EmptyStr, NotAvailable}

\* C13: in one invocation the metadata fetch, the summarization call and the
\* send call are each made at most once (exactly once when a StepResult is
\* returned), in that order, each only after its predecessor has completed
\* successfully (the summarization possibly with the fallback), the status
\* polls come after a successful send, and there are at most 8 of them.
C13_CallsInOrderOnce ==
    /\ calls.metadata <= 1 /\ calls.summarize <= 1 /\ calls.send <= 1
    /\ calls.status <= 8
    /\ calls.summarize > 0 => calls.metadata = 1 /\ FetchSucceeded
    /\ calls.send > 0 =>
        /\ calls.summarize = 1
        /\ summary = (IF failures.summarize = NoneVal THEN SomeSummary
                      ELSE FailedToSummarizePrefix \o failures.summarize)
    /\ calls.status > 0 =>
        /\ calls.send = 1
        /\ failures.send = NoneVal
        /\ ~Falsy(email_id)
    /\ ReturnedResult =>
        calls.metadata = 1 /\ calls.summarize = 1 /\ calls.send = 1

\* C13 witness: a StepResult returned after one fetch, one summarization, one
\* send and three status polls.
C13_Witness ==
    /\ ReturnedResult
    /\ calls = [metadata |-> 1, summarize |-> 1, send |-> 1, status |-> 3]

\* C14: for every budget max_duration_seconds >= 0, 0 included, a poll loop
\* that ends without a terminal observation makes the poller return
\* final_status 'unknown', and raise nothing.
C14_DeadlineExitReturnsUnknown ==
    (PollEnded /\ observed = NoObservation) =>
        /\ poll_result.kind = "return"
        /\ ReturnedUnknown

\* C15, for a provider whose status call fails until it answers with a
\* terminal status: a failed status query neither ends nor aborts the poll
\* loop; after it the poller sleeps and backs off as after 'pending' (2, 3,
\* 4.5, 5, ... seconds, one sleep per query); a 'delivered' or 'bounced'
\* answer after it is acted on; and when every query has failed the poller
\* returns 'unknown'.
C15_FailedQueryIsNoObservation ==
    /\ (calls.status > 0 /\ ~PollEnded) =>
        /\ ~status_result["success"]
        /\ pc \in {"poll_sleep", "poll_loop", "poll_query"}
        /\ outcome = "running"
        /\ Len(sleeps) = calls.status - (IF pc = "poll_sleep" THEN 1 ELSE 0)
    /\ \A i \in 1..Len(sleeps) : sleeps[i] = ExpectedSleep(i)
    /\ poll_interval = [num |-> 2 * 3 ^ Len(sleeps), den |-> 2 ^ Len(sleeps)]
    /\ (PollEnded /\ observed = NoObservation) =>
        /\ ReturnedUnknown
        /\ ~status_result["success"]
        /\ poll_result.value["last_check"] = EmptyDict
        /\ Len(sleeps) = calls.status
    /\ observed.status = StatusDelivered =>
        /\ poll_result.kind = "return"
        /\ poll_result.value["final_status"] = StatusDelivered
    /\ observed.status = StatusBounced =>
        /\ poll_result.kind = "raise"
        /\ poll_result.type = "NonRetriableError"

\* C15 witness: two status queries failed, the third answered 'delivered',
\* and the poller has returned 'delivered'.
C15_Witness ==
    /\ observed.status = StatusDelivered
    /\ observed.queries = 3
    /\ Len(sleeps) = 2
    /\ poll_result.kind = "return"
    /\ poll_result.value["final_status"] = StatusDelivered

\* C16: the deadline of the poller is measured on the clock from the start of
\* polling. A status query is started only while less than max_duration_seconds
\* have elapsed on the clock, 'unknown' is returned only once they have, and
\* the time elapsed is the sum of the sleeps plus the time spent waiting for
\* status queries, so that it is never less than the sum of the sleeps and an
\* eighth query is started only when the first seven took no time at all.
C16_DeadlineOnClock ==
    /\ pc = "poll_query" => Elapsed(now) < max_duration_seconds
    /\ query.count > 0 =>
        /\ Elapsed(query.started) < max_duration_seconds
        /\ Elapsed(query.started) >=
               SumSeq(SubSeq(sleeps, 1, query.count - 1))
    /\ ReturnedUnknown =>
        /\ Elapsed(poll_result.at) >= max_duration_seconds
        /\ Elapsed(poll_result.at) >= SumSeq(sleeps)
    /\ calls.status <= 8
    /\ calls.status = 8 =>
        Elapsed(query.started) = SumSeq(SubSeq(sleeps, 1, 7))

\* C16 witness: the poller has returned 'unknown' after seven queries whose
\* sleeps sum to 29.5 seconds, less than the budget: the rest of the 30
\* seconds was spent waiting for status queries.
C16_Witness ==
    /\ ReturnedUnknown
    /\ calls.status = 7
    /\ SumSeq(sleeps) < max_duration_seconds
    /\ Elapsed(poll_result.at) >= max_duration_seconds

\* C17: once the engine has cancelled an invocation whose poller was sleeping
\* or awaiting a status query, no further status query is issued, and the
\* invocation has ended with CancelledError: the poller has not returned
\* 'delivered' or 'unknown' nor raised a bounce failure, no terminal status
\* is recorded, and get_movie_plot has produced no StepResult.
C17_CancelStopsPolling ==
    cancelled.requested =>
        /\ calls.status = cancelled.queries
        /\ pc = "done"
        /\ outcome = "CancelledError"
        /\ poll_result.kind = "raise"
        /\ poll_result.type = "CancelledError"
        /\ observed = NoObservation
        /\ ~ReturnedResult
        /\ result = EmptyDict
        /\ email_result = EmptyDict

\* C17 witness: the invocation was cancelled while its poller awaited its
\* second status query, after one sleep.
C17_Witness ==
    /\ cancelled.requested
    /\ cancelled.at = "poll_query"
    /\ cancelled.queries = 2
    /\ Len(sleeps) = 1
    /\ outcome = "CancelledError"

ExpectedStart(n) == SumSeq([i \in 1..(n - 1) |-> ExpectedSleep(i)])

\* The states C20 allows: the poller issues at most 8 status queries, and at
\* least one before it ends; the n-th query never starts before
\* ExpectedStart(n); and when no query has taken any time and none has
\* answered 'delivered' or 'bounced', the poller ends after exactly 8 queries,
\* the last started at 29.5 seconds, by returning 'unknown' at 34.5 seconds.
C20_QueriesBounded ==
    /\ calls.status <= 8
    /\ PollEnded => calls.status >= 1
    /\ query.count > 0 =>
        /\ Elapsed(query.started) >= ExpectedStart(query.count)
        /\ ExpectedStart(query.count) \in
               {0, Seconds(2), Seconds(5), Seconds(19) \div 2,
                Seconds(29) \div 2, Seconds(39) \div 2, Seconds(49) \div 2,
                Seconds(59) \div 2}
    /\ (PollEnded /\ observed = NoObservation
            /\ Elapsed(poll_result.at) = SumSeq(sleeps)) =>
        /\ ReturnedUnknown
        /\ calls.status = 8
        /\ Elapsed(query.started) = Seconds(59) \div 2
        /\ Elapsed(poll_result.at) = Seconds(69) \div 2

\* C20: with the default 30s budget and 2s first interval, when every status
\* query and every sleep completes, poll_email_status ends, by returning or
\* by raising, after at least one and at most 8 status queries; with queries
\* that take no time and never a terminal answer, after exactly 8, started at
\* 0, 2, 5, 9.5, 14.5, 19.5, 24.5 and 29.5 seconds.
C20_PollerTerminates ==
    /\ []C20_QueriesBounded
    /\ (pc = "poll_loop") ~> PollEnded

\* C20 witness: eight status queries that took no time and gave no terminal
\* answer, the eighth started at 29.5 seconds, and 'unknown' returned at 34.5
\* seconds.
C20_Witness ==
    /\ ReturnedUnknown
    /\ calls.status = 8
    /\ Len(sleeps) = 8
    /\ Elapsed(query.started) = Seconds(59) \div 2
    /\ Elapsed(query.finished) = Seconds(59) \div 2
    /\ Elapsed(poll_result.at) = Seconds(69) \div 2

\* What C18 says of one poller p among concurrent ones: its sleeps and its
\* interval follow its own backoff (2, 3, 4.5, 5, ... seconds); its queries
\* are issued within its budget counted from its own start time; the time it
\* has run is made of its own sleeps and its own query latencies; and how it
\* ended follows from the last answer it got itself.
PollerOnItsOwn(p) ==
    LET slept == Len(p.sleeps) - (IF p.pc = "poll_sleep" THEN 1 ELSE 0)
        last == Get(Get(p.status_result, "data", EmptyDict),
                    "last_event", NoneVal)
    IN  /\ \A n \in 1..Len(p.sleeps) : p.sleeps[n] = ExpectedSleep(n)
        /\ p.poll_interval = [num |-> 2 * 3 ^ slept, den |-> 2 ^ slept]
        /\ p.pc = "poll_query" =>
            /\ p.issued - p.start_time < p.max_duration_seconds
            /\ p.issued - p.start_time >= SumSeq(p.sleeps)
            /\ p.issued - p.start_time <=
                   SumSeq(p.sleeps) + Len(p.sleeps) * MaxLatency
        /\ p.pc = "poll_sleep" =>
            /\ p.wake - p.start_time >= SumSeq(p.sleeps)
            /\ p.wake - p.start_time <=
                   SumSeq(p.sleeps) + Len(p.sleeps) * MaxLatency
        /\ p.poll_result.kind = "return" =>
            /\ p.poll_result.value["final_status"] =
                   (IF last = StatusDelivered THEN StatusDelivered
                    ELSE StatusUnknown)
            /\ last # StatusBounced
            /\ last # StatusDelivered =>
                   p.poll_result.at - p.start_time >= p.max_duration_seconds
        /\ (p.poll_result.kind = "raise" /\ p.status_result # Unbound) =>
            /\ last = StatusBounced
            /\ p.poll_result.type = "NonRetriableError"

====
